---- MODULE Spec2Model ----
(***************************************************************************)
(* A model of app.py: the WhatsApp ordering webhook.                       *)
(*                                                                         *)
(* Text is modelled at the character level: a Python str is a sequence of  *)
(* one-character strings, so that lower(), strip(), the two re.sub calls   *)
(* of normalize and the three regular expressions of parse_order are       *)
(* computed the way the code computes them.                                *)
(***************************************************************************)
EXTENDS Integers, Sequences, FiniteSets, TLC

VARIABLES
    SESSIONS,     \* the module-level dict: sender -> session dict
    from_,        \* the "From" form field of the request handled last
    Body,         \* the "Body" form field of the request handled last
    resp,         \* the reply returned for the request handled last
    prev,         \* history: SESSIONS as it was when that request arrived
    confirmSent,  \* history: the senders that have sent "confirm" so far
    text,         \* the input of the pure text functions
    norm,         \* the successive results of normalize, starting from text
    parsed,       \* the result of parse_order(text), once computed
    priced,       \* the result of format_order on that result, once computed
    running,      \* the requests in progress: thread -> position and locals
    ids,          \* sender -> identity of the session dict stored for it
    orphans,      \* identity -> session dict that left SESSIONS and is still
                  \* referenced by a request in progress
    base          \* history: SESSIONS as it was before the requests in
                  \* progress were received

vars == <<SESSIONS, from_, Body, resp, prev, confirmSent, text, norm, parsed,
          priced, running, ids, orphans, base>>

\* The variables of the interleaved requests, those of the last request
\* handled as a whole, and those of the text functions.
raceVars == <<running, ids, orphans, base>>
lastVars == <<from_, Body, resp, prev, confirmSent>>
textVars == <<text, norm, parsed, priced>>

---------------------------------------------------------------------------
(* Characters and strings *)

\* The characters of a string literal, as a sequence of one-character strings.
Chars(s) == [i \in 1..Len(s) |-> SubSeq(s, i, i)]

LowerLetters == Chars("abcdefghijklmnopqrstuvwxyz")
UpperLetters == Chars("ABCDEFGHIJKLMNOPQRSTUVWXYZ")
Digits == Chars("0123456789")

Range(f) == {f[i] : i \in DOMAIN f}

LowerSet == Range(LowerLetters)
UpperSet == Range(UpperLetters)
DigitSet == Range(Digits)

\* \s of the re module, and the characters str.strip() removes.
SpaceSet == {" ", "\t", "\n"}

IsSpace(c) == c \in SpaceSet

\* \w of the re module: letters, digits and the underscore.
WordSet == LowerSet \cup UpperSet \cup DigitSet \cup {"_"}

IsWord(c) == c \in WordSet

\* \d of the re module.
IsDigit(c) == c \in DigitSet

\* int() of one digit.
DigitValue(c) == (CHOOSE i \in 1..Len(Digits) : Digits[i] = c) - 1

\* str.lower() of one character.
LowerChar(c) ==
    IF c \in UpperSet
    THEN LowerLetters[CHOOSE i \in 1..Len(UpperLetters) : UpperLetters[i] = c]
    ELSE c

\* str.lower()
RECURSIVE Lower(_)
Lower(s) == IF s = <<>> THEN <<>> ELSE <<LowerChar(Head(s))>> \o Lower(Tail(s))

\* str.strip(): drops the leading and the trailing whitespace.
Strip(s) ==
    IF \A i \in 1..Len(s) : IsSpace(s[i]) THEN <<>>
    ELSE LET first == CHOOSE i \in 1..Len(s) :
                          ~IsSpace(s[i]) /\ \A j \in 1..(i - 1) : IsSpace(s[j])
             last  == CHOOSE i \in 1..Len(s) :
                          ~IsSpace(s[i]) /\ \A j \in (i + 1)..Len(s) : IsSpace(s[j])
         IN  SubSeq(s, first, last)

\* str.startswith(prefix)
StartsWith(s, prefix) ==
    /\ Len(prefix) <= Len(s)
    /\ SubSeq(s, 1, Len(prefix)) = prefix

\* s.split(sep, 1)[1]: what follows the first occurrence of the character sep.
AfterFirst(s, sep) ==
    LET at == {i \in 1..Len(s) : s[i] = sep}
        first == CHOOSE i \in at : \A j \in at : i <= j
    IN  SubSeq(s, first + 1, Len(s))

---------------------------------------------------------------------------
(* normalize *)

\* re.sub(r"[^\w\sx:]", " ", t): every character that is not a word
\* character, whitespace, x or a colon becomes one space.
RECURSIVE SubPunct(_)
SubPunct(t) ==
    IF t = <<>> THEN <<>>
    ELSE LET c == Head(t)
         IN  <<IF IsWord(c) \/ IsSpace(c) \/ c \in {"x", ":"} THEN c ELSE " ">>
                 \o SubPunct(Tail(t))

\* re.sub(r"\s+", " ", t): every maximal run of whitespace becomes one space.
RECURSIVE SubSpacesFrom(_, _)
SubSpacesFrom(t, i) ==
    IF i > Len(t) THEN <<>>
    ELSE IF IsSpace(t[i])
         THEN IF i > 1 /\ IsSpace(t[i - 1])
              THEN SubSpacesFrom(t, i + 1)
              ELSE <<" ">> \o SubSpacesFrom(t, i + 1)
         ELSE <<t[i]>> \o SubSpacesFrom(t, i + 1)

SubSpaces(t) == SubSpacesFrom(t, 1)

normalize(s) == SubSpaces(SubPunct(Strip(Lower(s))))

---------------------------------------------------------------------------
(* The menu *)

\* The MENU dict, in its declaration order (a dict iterates in that order).
MENU == <<
    [key |-> "taco",       name |-> "Tacos",      price |-> 50],
    [key |-> "burrito",    name |-> "Burrito",    price |-> 80],
    [key |-> "quesadilla", name |-> "Quesadilla", price |-> 70],
    [key |-> "soda",       name |-> "Soda",       price |-> 25] >>

\* MENU[key]
MenuItem(key) == MENU[CHOOSE k \in 1..Len(MENU) : MENU[k].key = key]

\* item["name"].lower()
LoweredName(item) == Lower(Chars(item.name))

---------------------------------------------------------------------------
(* The regular expressions of parse_order *)

WordAt(t, i) == i \in 1..Len(t) /\ IsWord(t[i])

\* \b holds in front of position i (i = Len(t) + 1 is the end of the text).
Boundary(t, i) == WordAt(t, i - 1) # WordAt(t, i)

\* The literal lit occupies t[i .. i + Len(lit) - 1].
LitAt(t, i, lit) ==
    /\ i >= 1
    /\ i + Len(lit) - 1 <= Len(t)
    /\ \A k \in 1..Len(lit) : t[i + k - 1] = lit[k]

\* \s* from position i: the position after the whitespace run that starts at i.
SkipSpaces(t, i) ==
    CHOOSE j \in i..(Len(t) + 1) :
        /\ \A k \in i..(j - 1) : IsSpace(t[k])
        /\ (j = Len(t) + 1 \/ ~IsSpace(t[j]))

\* \d* from position i: the position after the digit run that starts at i.
SkipDigits(t, i) ==
    CHOOSE j \in i..(Len(t) + 1) :
        /\ \A k \in i..(j - 1) : IsDigit(t[k])
        /\ (j = Len(t) + 1 \/ ~IsDigit(t[j]))

\* int(m.group(1)) for the digits t[i .. j - 1].
RECURSIVE IntOf(_, _, _)
IntOf(t, i, j) ==
    IF j <= i THEN 0 ELSE IntOf(t, i, j - 1) * 10 + DigitValue(t[j - 1])

NoMatch == [found |-> FALSE, end |-> 0, qty |-> 0]

\* \s*x\s*(\d+)\b from position e. The digit run is taken whole: a shorter
\* one is followed by a digit, where \b does not hold.
XQtyAt(t, e) ==
    LET k == SkipSpaces(t, e)
    IN  IF k <= Len(t) /\ t[k] = "x"
        THEN LET d == SkipSpaces(t, k + 1)
                 j == SkipDigits(t, d)
             IN  IF j > d /\ Boundary(t, j)
                 THEN [found |-> TRUE, end |-> j, qty |-> IntOf(t, d, j)]
                 ELSE NoMatch
        ELSE NoMatch

\* A match of \b{name}s?\s*x\s*(\d+)\b that starts at position i: s? is
\* greedy, and is given up if the rest does not match after it.
MatchNameXQty(t, name, i) ==
    IF Boundary(t, i) /\ LitAt(t, i, name)
    THEN LET e == i + Len(name)
             withS == IF e <= Len(t) /\ t[e] = "s" THEN XQtyAt(t, e + 1) ELSE NoMatch
         IN  IF withS.found THEN withS ELSE XQtyAt(t, e)
    ELSE NoMatch

\* A match of \b(\d+)\s*{name}s?\b that starts at position i.
MatchQtyName(t, name, i) ==
    IF Boundary(t, i) /\ i <= Len(t) /\ IsDigit(t[i])
    THEN LET j == SkipDigits(t, i)
             k == SkipSpaces(t, j)
             e == k + Len(name)
         IN  IF LitAt(t, k, name)
             THEN IF e <= Len(t) /\ t[e] = "s" /\ Boundary(t, e + 1)
                  THEN [found |-> TRUE, end |-> e + 1, qty |-> IntOf(t, i, j)]
                  ELSE IF Boundary(t, e)
                       THEN [found |-> TRUE, end |-> e, qty |-> IntOf(t, i, j)]
                       ELSE NoMatch
             ELSE NoMatch
    ELSE NoMatch

\* The sum of int(m.group(1)) over re.finditer of the name-x-integer pattern:
\* the matches are found left to right, each search starting where the
\* previous match ended.
RECURSIVE SumNameXQty(_, _, _)
SumNameXQty(t, name, pos) ==
    IF pos > Len(t) THEN 0
    ELSE LET m == MatchNameXQty(t, name, pos)
         IN  IF m.found THEN m.qty + SumNameXQty(t, name, m.end)
                        ELSE SumNameXQty(t, name, pos + 1)

\* The same sum for the integer-name pattern.
RECURSIVE SumQtyName(_, _, _)
SumQtyName(t, name, pos) ==
    IF pos > Len(t) THEN 0
    ELSE LET m == MatchQtyName(t, name, pos)
         IN  IF m.found THEN m.qty + SumQtyName(t, name, m.end)
                        ELSE SumQtyName(t, name, pos + 1)

\* re.search(rf"\b{name}s?\b", t)
MentionsName(t, name) ==
    \E i \in 1..Len(t) :
        /\ Boundary(t, i)
        /\ LitAt(t, i, name)
        /\ LET e == i + Len(name)
           IN  \/ e <= Len(t) /\ t[e] = "s" /\ Boundary(t, e + 1)
               \/ Boundary(t, e)

---------------------------------------------------------------------------
(* parse_order and format_order *)

\* The commands parse_order does not treat as orders.
NotOrderCommands ==
    {Chars("hi"), Chars("hello"), Chars("hola"), Chars("menu"), Chars("help"),
     Chars("confirm"), Chars("change")}

\* A variant of ItemQty that counts a quantity once: the integer-name matches
\* count only when the name-x-integer pattern found nothing.
ItemQtyOnce(t, item) ==
    IF SumNameXQty(t, LoweredName(item), 1) > 0
    THEN SumNameXQty(t, LoweredName(item), 1)
    ELSE SumQtyName(t, LoweredName(item), 1)

\* qty of one menu item: both patterns are scanned and their matches summed.
ItemQty(t, item) ==
    SumNameXQty(t, LoweredName(item), 1) + SumQtyName(t, LoweredName(item), 1)

\* key in items, for a dict kept as the sequence of its entries in insertion order.
HasKey(items, key) == \E i \in 1..Len(items) : items[i].key = key

\* A variant of CountedItems without the test qty > 0: every menu item gets an
\* entry, with the quantity 0 when nothing matched.
RECURSIVE CountedItemsAny(_, _)
CountedItemsAny(t, k) ==
    IF k = 0 THEN <<>>
    ELSE Append(CountedItemsAny(t, k - 1),
                [key |-> MENU[k].key, qty |-> ItemQty(t, MENU[k])])

\* The dict items after the first loop has run over MENU[1..k].
RECURSIVE CountedItems(_, _)
CountedItems(t, k) ==
    IF k = 0 THEN <<>>
    ELSE LET before == CountedItems(t, k - 1)
             qty == ItemQty(t, MENU[k])
         IN  IF qty > 0
             THEN Append(before, [key |-> MENU[k].key, qty |-> qty])
             ELSE before

\* A variant of AssumedItems that merges the two loops: the dict is built anew
\* over MENU[1..k], an item taking its counted quantity or else the implicit 1.
RECURSIVE AssumedItemsMerged(_, _, _)
AssumedItemsMerged(t, counted, k) ==
    IF k = 0 THEN <<>>
    ELSE LET before == AssumedItemsMerged(t, counted, k - 1)
         IN  IF HasKey(counted, MENU[k].key)
             THEN Append(before,
                         counted[CHOOSE i \in 1..Len(counted) :
                                     counted[i].key = MENU[k].key])
             ELSE IF MentionsName(t, LoweredName(MENU[k]))
                  THEN Append(before, [key |-> MENU[k].key, qty |-> 1])
                  ELSE before

\* The dict items after the second loop has run over MENU[1..k].
RECURSIVE AssumedItems(_, _, _)
AssumedItems(t, counted, k) ==
    IF k = 0 THEN counted
    ELSE LET before == AssumedItems(t, counted, k - 1)
         IN  IF HasKey(before, MENU[k].key) THEN before
             ELSE IF MentionsName(t, LoweredName(MENU[k]))
                  THEN Append(before, [key |-> MENU[k].key, qty |-> 1])
                  ELSE before

\* The value parse_order returns: None, or the dict of the items recognized.
parse_order(s) ==
    LET t == normalize(s)
    IN  IF t \in NotOrderCommands
        THEN [none |-> TRUE, items |-> <<>>]
        ELSE [none |-> FALSE,
              items |-> AssumedItems(t, CountedItems(t, Len(MENU)), Len(MENU))]

\* A variant of TotalOf that assigns the line total where the code adds it:
\* total is the line total of the last entry.
TotalOfLast(items, k) ==
    IF k = 0 THEN 0
    ELSE items[k].qty * MenuItem(items[k].key).price

\* total after the loop of format_order has run over the first k entries.
RECURSIVE TotalOf(_, _)
TotalOf(items, k) ==
    IF k = 0 THEN 0
    ELSE TotalOf(items, k - 1) + items[k].qty * MenuItem(items[k].key).price

\* The pair format_order returns; a line "- {name} x{qty} = ${line_total}" is
\* kept as its three values.
format_order(items_dict) ==
    [lines |-> [k \in 1..Len(items_dict) |->
                   [name |-> MenuItem(items_dict[k].key).name,
                    qty |-> items_dict[k].qty,
                    line_total |-> items_dict[k].qty * MenuItem(items_dict[k].key).price]],
     total |-> TotalOf(items_dict, Len(items_dict))]

---------------------------------------------------------------------------
(* The sessions dict *)

\* SESSIONS.get(from_) is a session with a non-empty "items": the negation of
\* the test "not s or not s.get('items')".
HasItems(sessions, sender) ==
    /\ sender \in DOMAIN sessions
    /\ "items" \in DOMAIN sessions[sender]
    /\ sessions[sender]["items"] # <<>>

\* The same for "address": the empty string is as good as no address.
HasAddress(sessions, sender) ==
    /\ sender \in DOMAIN sessions
    /\ "address" \in DOMAIN sessions[sender]
    /\ sessions[sender]["address"] # <<>>

\* d[key] = value, for a dict d
DictSet(d, key, value) ==
    [k \in DOMAIN d \cup {key} |-> IF k = key THEN value ELSE d[k]]

\* del d[key]
DictDel(d, key) == [k \in DOMAIN d \ {key} |-> d[k]]

---------------------------------------------------------------------------
(* The branches of the route handler: each gives the sessions dict it       *)
(* leaves and the reply it returns.                                         *)

Reply(kind) == [kind |-> kind]

\* body in ("hi", "hello", "hola", "menu", "help")
StartCommands ==
    {Chars("hi"), Chars("hello"), Chars("hola"), Chars("menu"), Chars("help")}

\* Start / help
StartHelp(sessions, sender) ==
    [sessions |-> sessions, resp |-> Reply("Menu")]

\* A variant of ConfirmOrder that records the confirmation in the session.
ConfirmOrderFlagged(sessions, sender) ==
    IF ~HasItems(sessions, sender)
    THEN [sessions |-> sessions, resp |-> Reply("NoOrderFound")]
    ELSE [sessions |-> DictSet(sessions, sender,
                               DictSet(sessions[sender], "confirmed", TRUE)),
          resp |-> Reply("Confirmed")]

\* Confirm order
ConfirmOrder(sessions, sender) ==
    IF ~HasItems(sessions, sender)
    THEN [sessions |-> sessions, resp |-> Reply("NoOrderFound")]
    ELSE [sessions |-> sessions, resp |-> Reply("Confirmed")]

\* A variant of ChangeOrder that empties the order and keeps the session.
ChangeOrderEmptied(sessions, sender) ==
    [sessions |-> IF sender \in DOMAIN sessions
                  THEN DictSet(sessions, sender, [items |-> <<>>, total |-> 0])
                  ELSE sessions,
     resp |-> Reply("OrderCleared")]

\* A variant of ChangeOrder that clears the whole dict (SESSIONS.clear()).
ChangeOrderAll(sessions, sender) ==
    [sessions |-> <<>>, resp |-> Reply("OrderCleared")]

\* Change order (simple reset)
ChangeOrder(sessions, sender) ==
    [sessions |-> IF sender \in DOMAIN sessions THEN DictDel(sessions, sender)
                                                ELSE sessions,
     resp |-> Reply("OrderCleared")]

\* A variant of CaptureAddress that stores the address before it looks for
\* the order.
CaptureAddressFirst(sessions, sender, body_raw) ==
    LET address == Strip(AfterFirst(body_raw, ":"))
        old == IF sender \in DOMAIN sessions THEN sessions[sender] ELSE <<>>
        stored == DictSet(sessions, sender, DictSet(old, "address", address))
    IN  IF ~HasItems(sessions, sender)
        THEN [sessions |-> stored, resp |-> Reply("PlaceOrderFirst")]
        ELSE [sessions |-> stored,
              resp |-> [kind |-> "AddressSaved", address |-> address]]

\* Capture address
CaptureAddress(sessions, sender, body_raw) ==
    IF ~HasItems(sessions, sender)
    THEN [sessions |-> sessions, resp |-> Reply("PlaceOrderFirst")]
    ELSE LET address == Strip(AfterFirst(body_raw, ":"))
         IN  [sessions |-> DictSet(sessions, sender,
                                   DictSet(sessions[sender], "address", address)),
              resp |-> [kind |-> "AddressSaved", address |-> address]]

\* A variant of DemoDone that closes the session once the demo is complete.
DemoDoneClosing(sessions, sender) ==
    IF ~HasItems(sessions, sender) \/ ~HasAddress(sessions, sender)
    THEN [sessions |-> sessions, resp |-> Reply("MissingOrderOrAddress")]
    ELSE [sessions |-> DictDel(sessions, sender), resp |-> Reply("DemoComplete")]

\* Demo done
DemoDone(sessions, sender) ==
    IF ~HasItems(sessions, sender) \/ ~HasAddress(sessions, sender)
    THEN [sessions |-> sessions, resp |-> Reply("MissingOrderOrAddress")]
    ELSE [sessions |-> sessions, resp |-> Reply("DemoComplete")]

\* A variant of StoreOrder that updates the session in place, so that what
\* it held besides the order stays.
StoreOrderUpdating(sessions, sender, items_dict) ==
    LET formatted == format_order(items_dict)
        old == IF sender \in DOMAIN sessions THEN sessions[sender] ELSE <<>>
    IN  [sessions |-> DictSet(sessions, sender,
                              DictSet(DictSet(old, "items", items_dict),
                                      "total", formatted.total)),
         resp |-> [kind |-> "OrderAccepted", lines |-> formatted.lines,
                   total |-> formatted.total]]

\* SESSIONS[from_] = {"items": items_dict, "total": total}, and the reply
StoreOrder(sessions, sender, items_dict) ==
    LET formatted == format_order(items_dict)
    IN  [sessions |-> DictSet(sessions, sender,
                              [items |-> items_dict, total |-> formatted.total]),
         resp |-> [kind |-> "OrderAccepted", lines |-> formatted.lines,
                   total |-> formatted.total]]

\* The message bodies of the model.
Messages ==
    {Chars("2 tacos and 1 soda"), Chars("taco x2, soda"), Chars("2 tacos x2"),
     Chars(" MENU"), Chars("confirm"), Chars("change"),
     Chars("address: 123 Main St"), Chars("address:"), Chars("Address: 2 Tacos"),
     Chars("done"), Chars("asdfasdf"),
     Chars("menu!"), Chars("Confirm."), Chars("Hola\t")}

\* parse_order(body_raw) for the bodies of the model: the parser is a pure
\* function of the body, so its results are computed once and looked up.
ParsedBodies == [body_raw \in {Strip(b) : b \in Messages} |-> parse_order(body_raw)]

\* A variant of TryOrder without the test for the empty dict: whatever
\* parse_order returns besides None is stored as the order.
TryOrderAnything(sessions, sender, body_raw) ==
    LET items_dict == ParsedBodies[body_raw]
    IN  IF items_dict.none
        THEN [sessions |-> sessions, resp |-> Reply("ReplyMenuToStart")]
        ELSE StoreOrder(sessions, sender, items_dict.items)

\* Try parsing as a natural language order
TryOrder(sessions, sender, body_raw) ==
    LET items_dict == ParsedBodies[body_raw]
    IN  IF items_dict.none
        THEN [sessions |-> sessions, resp |-> Reply("ReplyMenuToStart")]
        ELSE IF items_dict.items = <<>>
             THEN [sessions |-> sessions, resp |-> Reply("NotRecognized")]
             ELSE StoreOrder(sessions, sender, items_dict.items)

\* A variant of BodyForms that compares the body as it was typed: body is
\* not lowered.
BodyFormsTyped(form_body) ==
    LET body_raw == Strip(form_body)
    IN  [body_raw |-> body_raw, body |-> body_raw]

\* body_raw and body, the two forms of the Body field the handler works with.
BodyForms(form_body) ==
    LET body_raw == Strip(form_body)
    IN  [body_raw |-> body_raw, body |-> Strip(Lower(body_raw))]

\* The same for the bodies of the model, computed once and looked up.
MessageForms == [form_body \in Messages |-> BodyForms(form_body)]

\* A variant of Handle that tries the body as an order before it looks for
\* an address: a body in which parse_order recognizes items is an order.
HandleOrdersFirst(sessions, sender, form_body) ==
    LET body_raw == MessageForms[form_body].body_raw
        body == MessageForms[form_body].body
    IN  IF body \in StartCommands THEN StartHelp(sessions, sender)
        ELSE IF body = Chars("confirm") THEN ConfirmOrder(sessions, sender)
        ELSE IF body = Chars("change") THEN ChangeOrder(sessions, sender)
        ELSE IF body = Chars("done") THEN DemoDone(sessions, sender)
        ELSE IF ParsedBodies[body_raw].items # <<>>
             THEN TryOrder(sessions, sender, body_raw)
        ELSE IF StartsWith(body, Chars("address:"))
             THEN CaptureAddress(sessions, sender, body_raw)
        ELSE TryOrder(sessions, sender, body_raw)

\* The route handler, for the form fields From = sender and Body = form_body.
Handle(sessions, sender, form_body) ==
    LET body_raw == MessageForms[form_body].body_raw
        body == MessageForms[form_body].body
    IN  IF body \in StartCommands THEN StartHelp(sessions, sender)
        ELSE IF body = Chars("confirm") THEN ConfirmOrder(sessions, sender)
        ELSE IF body = Chars("change") THEN ChangeOrder(sessions, sender)
        ELSE IF StartsWith(body, Chars("address:"))
             THEN CaptureAddress(sessions, sender, body_raw)
        ELSE IF body = Chars("done") THEN DemoDone(sessions, sender)
        ELSE TryOrder(sessions, sender, body_raw)

---------------------------------------------------------------------------
(* The webhook as a state machine *)

\* The senders of the model.
Customers == {"whatsapp:+1", "whatsapp:+2"}

\* No request was handled yet.
NoReply == Reply("None")

\* The values the text variables keep while the webhook runs.
TextIdle == text = <<>> /\ norm = <<>> /\ parsed = <<>> /\ priced = <<>>

\* The state after the module is loaded: no sessions, no request handled.
WebhookIdle ==
    /\ SESSIONS = <<>>
    /\ from_ = ""
    /\ Body = <<>>
    /\ resp = NoReply
    /\ prev = <<>>
    /\ confirmSent = {}

\* The threads that serve requests, and a request not yet received: s is the
\* local of that name, a reference to a session dict or None.
Threads == {"t1", "t2"}

NoneRef == 0

IdleCall ==
    [pc |-> "idle", sender |-> "", body |-> <<>>, s |-> NoneRef,
     seen |-> NoneRef, stale |-> FALSE, reply |-> NoReply]

\* The values the variables of the interleaved requests keep meanwhile.
RaceIdle ==
    /\ running = [t \in Threads |-> IdleCall]
    /\ ids = <<>>
    /\ orphans = <<>>
    /\ base = <<>>

Init == WebhookIdle /\ TextIdle /\ RaceIdle

\* One POST /whatsapp, handled from its first line to its return.
whatsapp ==
    \E sender \in Customers, form_body \in Messages :
        LET r == Handle(SESSIONS, sender, form_body)
        IN  /\ SESSIONS' = r.sessions
            /\ resp' = r.resp
            /\ from_' = sender
            /\ Body' = form_body
            /\ prev' = SESSIONS
            /\ confirmSent' =
                   IF MessageForms[form_body].body = Chars("confirm")
                   THEN confirmSent \cup {sender} ELSE confirmSent
            /\ UNCHANGED <<textVars, raceVars>>

Next == whatsapp

Spec == Init /\ [][Next]_vars

---------------------------------------------------------------------------
(* Properties of the webhook, checked under Spec. In a state reached by a   *)
(* request, from_ and Body are that request, resp is its reply, prev is     *)
(* the sessions dict it found and SESSIONS the one it left.                 *)

MsgOrder   == Chars("2 tacos and 1 soda")
MsgConfirm == Chars("confirm")
MsgAddress == Chars("address: 123 Main St")
MsgDone    == Chars("done")
MsgChange  == Chars("change")

\* The session the order "2 tacos and 1 soda" leaves, and the same with the
\* address of "address: 123 Main St".
HappyOrder ==
    [items |-> <<[key |-> "taco", qty |-> 2], [key |-> "soda", qty |-> 1]>>,
     total |-> 125]

HappyAddressed ==
    [items |-> <<[key |-> "taco", qty |-> 2], [key |-> "soda", qty |-> 1]>>,
     total |-> 125,
     address |-> Chars("123 Main St")]

\* The three states of a customer, read off a sessions dict.
NoSession(sessions, c) == c \notin DOMAIN sessions

OrderOnly(sessions, c) ==
    /\ c \in DOMAIN sessions
    /\ sessions[c]["items"] # <<>>
    /\ "address" \notin DOMAIN sessions[c]

OrderAndAddress(sessions, c) ==
    /\ c \in DOMAIN sessions
    /\ sessions[c]["items"] # <<>>
    /\ "address" \in DOMAIN sessions[c]

\* C1: the happy path. With no session, "2 tacos and 1 soda" is accepted
\* with total 125; then "confirm" is confirmed; then "address: 123 Main St"
\* is saved; then "done" completes the demo, and every further "done"
\* completes it again and leaves the session as it is. Each step starts
\* from the session the step before it left.
C1_HappyPath ==
    /\ (Body = MsgOrder /\ NoSession(prev, from_)) =>
           /\ resp = [kind |-> "OrderAccepted",
                      lines |-> <<[name |-> "Tacos", qty |-> 2, line_total |-> 100],
                                  [name |-> "Soda", qty |-> 1, line_total |-> 25]>>,
                      total |-> 125]
           /\ from_ \in DOMAIN SESSIONS
           /\ SESSIONS[from_] = HappyOrder
    /\ (Body = MsgConfirm /\ from_ \in DOMAIN prev /\ prev[from_] = HappyOrder) =>
           /\ resp = Reply("Confirmed")
           /\ SESSIONS[from_] = HappyOrder
    /\ (Body = MsgAddress /\ from_ \in DOMAIN prev /\ prev[from_] = HappyOrder) =>
           /\ resp = [kind |-> "AddressSaved", address |-> Chars("123 Main St")]
           /\ SESSIONS[from_] = HappyAddressed
    /\ (Body = MsgDone /\ from_ \in DOMAIN prev /\ prev[from_] = HappyAddressed) =>
           /\ resp = Reply("DemoComplete")
           /\ SESSIONS = prev

\* C1 witness: the last step of the path, a "done" that completes the demo
\* for a customer who has confirmed and holds the order and the address.
C1_Witness ==
    /\ Body = MsgDone
    /\ resp = Reply("DemoComplete")
    /\ from_ \in confirmSent
    /\ from_ \in DOMAIN SESSIONS
    /\ SESSIONS[from_] = HappyAddressed
    /\ SESSIONS = prev

\* The order messages of the model, each with the session it must leave.
OrderSessions ==
    {[text |-> Chars("2 tacos and 1 soda"),
      session |-> [items |-> <<[key |-> "taco", qty |-> 2],
                               [key |-> "soda", qty |-> 1]>>, total |-> 125]],
     [text |-> Chars("taco x2, soda"),
      session |-> [items |-> <<[key |-> "soda", qty |-> 1]>>, total |-> 25]],
     [text |-> Chars("2 tacos x2"),
      session |-> [items |-> <<[key |-> "taco", qty |-> 4]>>, total |-> 200]]}

\* The re-order of C2 has just happened: an order message of a customer who
\* had an order and an address.
Reordered ==
    /\ \E o \in OrderSessions : Body = o.text
    /\ OrderAndAddress(prev, from_)

\* C2: address loss on re-order. An order message of a customer in
\* ORDER_AND_ADDRESS replaces the session by exactly the order of that
\* message and its total, with no address, so that the customer is in
\* ORDER_ONLY, and a "done" that follows at once is answered with the
\* missing-order-or-address error.
C2_AddressLoss ==
    [][
        /\ Reordered' =>
               /\ resp'.kind = "OrderAccepted"
               /\ \E o \in OrderSessions :
                      Body' = o.text /\ SESSIONS'[from_'] = o.session
               /\ OrderOnly(SESSIONS', from_')
        /\ (Reordered /\ from_' = from_ /\ Body' = MsgDone) =>
               /\ resp' = Reply("MissingOrderOrAddress")
               /\ SESSIONS' = SESSIONS
    ]_vars

\* C2 witness: a re-order has dropped an address that was not empty.
C2_Witness ==
    /\ Reordered
    /\ HasAddress(prev, from_)
    /\ prev[from_]["items"] # SESSIONS[from_]["items"]
    /\ OrderOnly(SESSIONS, from_)

\* C3: from each of the three states, "change" leaves the customer with no
\* session, and a "confirm" sent right after it (or at any time the
\* customer has no session) is answered with the no-order-found error.
C3_ChangeClears ==
    [][
        /\ Body' = MsgChange =>
               /\ NoSession(SESSIONS', from_')
               /\ resp' = Reply("OrderCleared")
        /\ (Body = MsgChange /\ from_' = from_ /\ Body' = MsgConfirm) =>
               resp' = Reply("NoOrderFound")
        /\ (NoSession(SESSIONS, from_') /\ Body' = MsgConfirm) =>
               /\ resp' = Reply("NoOrderFound")
               /\ NoSession(SESSIONS', from_')
    ]_vars

\* C3 witness: "change" has removed a session that held an order and an address.
C3_Witness ==
    /\ Body = MsgChange
    /\ OrderAndAddress(prev, from_)
    /\ NoSession(SESSIONS, from_)

\* An "address:" message of a customer whose session has a non-empty order
\* has just been handled.
AddressSent ==
    /\ StartsWith(BodyForms(Body).body, Chars("address:"))
    /\ from_ \in DOMAIN prev
    /\ prev[from_]["items"] # <<>>

\* C4: whatever follows the first colon, an "address:" message of a customer
\* with a non-empty order stores the trimmed rest as the address and leaves
\* the customer in ORDER_AND_ADDRESS, the state in which a "done" that
\* follows at once completes the demo.
C4_AddressSaved ==
    [][
        /\ AddressSent' =>
               /\ OrderAndAddress(SESSIONS', from_')
               /\ SESSIONS'[from_']["address"] = Strip(AfterFirst(Strip(Body'), ":"))
               /\ resp'.kind = "AddressSaved"
        /\ (AddressSent /\ from_' = from_ /\ Body' = MsgDone) =>
               resp' = Reply("DemoComplete")
    ]_vars

\* C5: "confirm" changes nothing in the sessions dict and no session holds
\* a mark of it: the reply to "done" depends on the order and the address
\* alone, so that order, address, "done" completes the demo with or
\* without a "confirm".
C5_ConfirmIsInert ==
    /\ BodyForms(Body).body = MsgConfirm => SESSIONS = prev
    /\ \A c \in DOMAIN SESSIONS : DOMAIN SESSIONS[c] \subseteq {"items", "total", "address"}
    /\ Body = MsgDone =>
           (resp = Reply("DemoComplete")) <=>
               /\ from_ \in DOMAIN prev
               /\ prev[from_]["items"] # <<>>
               /\ "address" \in DOMAIN prev[from_]
               /\ prev[from_]["address"] # <<>>
    /\ (Body = MsgAddress /\ from_ \in DOMAIN prev /\ prev[from_]["items"] # <<>>) =>
           SESSIONS[from_]["address"] = Chars("123 Main St")

\* C5 witness: the demo is complete for a customer who never sent "confirm".
C5_Witness ==
    /\ Body = MsgDone
    /\ resp = Reply("DemoComplete")
    /\ from_ \notin confirmSent

\* The replies that are errors or guidance, and the menu.
GuidanceReplies ==
    {"Menu", "NoOrderFound", "PlaceOrderFirst", "MissingOrderOrAddress",
     "NotRecognized", "ReplyMenuToStart"}

\* C6: a message answered with an error or guidance reply, or with the
\* menu, leaves the whole sessions dict as it was.
C6_ErrorsKeepSessions ==
    resp.kind \in GuidanceReplies => SESSIONS = prev

\* C6 witness: a "done" was refused for want of an address while the
\* sender's order, and the other customer's session, were in the dict.
C6_Witness ==
    /\ resp = Reply("MissingOrderOrAddress")
    /\ OrderOnly(SESSIONS, from_)
    /\ \E c \in Customers \ {from_} : OrderAndAddress(SESSIONS, c)
    /\ SESSIONS = prev

\* The sessions dict cut down to the session of one customer.
OwnSession(sessions, c) == [k \in DOMAIN sessions \cap {c} |-> sessions[k]]

---------------------------------------------------------------------------
(* The text functions on their own: normalize and parse_order applied to    *)
(* an input drawn from a bounded set of strings.                            *)

\* The longest input built from fragments, counted in fragments.
MaxFrags == 3

\* How many times normalize is applied in a row.
MaxApply == 2

\* The pieces the generated inputs are put together from.
Fragments ==
    {Chars("2 "), Chars("tacos"), Chars("taco"), Chars("soda"), Chars(" x2"),
     Chars(", "), Chars("!"), Chars("s"), Chars(" ")}

\* The strings made of at most n fragments.
RECURSIVE Joined(_)
Joined(n) ==
    IF n = 0 THEN {<<>>}
    ELSE LET shorter == Joined(n - 1)
         IN  shorter \cup {s \o f : s \in shorter, f \in Fragments}

\* Inputs given in full: the examples of the documentation and of the menu text.
Examples ==
    {Chars("2 tacos and 1 soda"), Chars("taco x2, soda"), Chars("tacos x2, soda"),
     Chars("2 tacos x2"), Chars("1 burrito"), Chars("Burritos X3"),
     Chars("quesadilla x 2"), Chars("sodas x2"), Chars("0 tacos"),
     Chars("soda x2 and tacos"), Chars("tacos x 2 tacos"),
     Chars("2\ttacos"), Chars("menu"), Chars(" Menu\t"), Chars("menu!"),
     Chars("asdfasdf")}

TextInputs == Examples \cup Joined(MaxFrags)

InitText ==
    /\ text \in TextInputs
    /\ norm = <<>>
    /\ parsed = <<>>
    /\ priced = <<>>
    /\ WebhookIdle
    /\ RaceIdle

\* normalize applied to the text, then to its own result.
Normalize ==
    /\ Len(norm) < MaxApply
    /\ norm' = Append(norm, normalize(IF norm = <<>> THEN text ELSE norm[Len(norm)]))
    /\ UNCHANGED <<text, parsed, priced, SESSIONS, lastVars, raceVars>>

\* parse_order applied to the text.
ParseOrder ==
    /\ parsed = <<>>
    /\ parsed' = <<parse_order(text)>>
    /\ UNCHANGED <<text, norm, priced, SESSIONS, lastVars, raceVars>>

\* format_order applied to the order parse_order recognized, as the handler
\* does: never to None and never to the empty dict.
FormatOrder ==
    /\ parsed # <<>>
    /\ ~parsed[1].none
    /\ parsed[1].items # <<>>
    /\ priced = <<>>
    /\ priced' = <<format_order(parsed[1].items)>>
    /\ UNCHANGED <<text, norm, parsed, SESSIONS, lastVars, raceVars>>

NextText == Normalize \/ ParseOrder \/ FormatOrder

SpecText == InitText /\ [][NextText]_vars

---------------------------------------------------------------------------
(* Properties of the text functions, checked under SpecText *)

\* The quantity a parsed order holds for a key, 0 if the key is absent.
QtyOf(items, key) ==
    IF HasKey(items, key)
    THEN items[CHOOSE i \in 1..Len(items) : items[i].key = key].qty
    ELSE 0

\* C8: normalize is idempotent: normalize(normalize(s)) = normalize(s) for
\* every input s, also when s begins or ends with a punctuation character.
C8_NormalizeIdempotent ==
    Len(norm) >= 2 => norm[2] = norm[1]

\* The written forms of a menu item: its key, and its key with a trailing s.
WrittenForms(item) == {Chars(item.key), Chars(item.key) \o <<"s">>}

\* C9: parse("taco x2, soda") is {taco: 2, soda: 1}; an item written as its
\* name, singular or with a trailing s, followed by x and an integer n gets
\* the quantity n, and another item named without a quantity gets 1.
C9_NameXQty ==
    parsed # <<>> =>
        /\ text = Chars("taco x2, soda") =>
               parsed[1] = [none |-> FALSE,
                            items |-> <<[key |-> "taco", qty |-> 2],
                                        [key |-> "soda", qty |-> 1]>>]
        /\ \A k \in 1..Len(MENU) : \A w \in WrittenForms(MENU[k]) :
               /\ text = w \o Chars(" x2") =>
                      /\ ~parsed[1].none
                      /\ QtyOf(parsed[1].items, MENU[k].key) = 2
               /\ (text = w \o Chars(" x2, soda") /\ MENU[k].key # "soda") =>
                      /\ ~parsed[1].none
                      /\ QtyOf(parsed[1].items, MENU[k].key) = 2
                      /\ QtyOf(parsed[1].items, "soda") = 1

\* The quantities of all the matches of the name-x-integer pattern that start
\* at a position up to i, added up.
RECURSIVE AllNameXQty(_, _, _)
AllNameXQty(t, name, i) ==
    IF i = 0 THEN 0
    ELSE AllNameXQty(t, name, i - 1)
         + (IF MatchNameXQty(t, name, i).found THEN MatchNameXQty(t, name, i).qty ELSE 0)

\* The same for the integer-name pattern.
RECURSIVE AllQtyName(_, _, _)
AllQtyName(t, name, i) ==
    IF i = 0 THEN 0
    ELSE AllQtyName(t, name, i - 1)
         + (IF MatchQtyName(t, name, i).found THEN MatchQtyName(t, name, i).qty ELSE 0)

\* C10: double counting is preserved. For each menu item the quantity is the
\* sum of all the name-x-integer matches plus all the integer-name matches,
\* nothing being counted once only: "2 tacos x2" gives {taco: 4} and
\* "2 tacos and 1 soda" gives {taco: 2, soda: 1}.
C10_DoubleCounting ==
    (parsed # <<>> /\ ~parsed[1].none) =>
        /\ text = Chars("2 tacos x2") =>
               parsed[1].items = <<[key |-> "taco", qty |-> 4]>>
        /\ text = Chars("2 tacos and 1 soda") =>
               parsed[1].items = <<[key |-> "taco", qty |-> 2],
                                   [key |-> "soda", qty |-> 1]>>
        /\ \A k \in 1..Len(MENU) :
               LET t == normalize(text)
                   name == LoweredName(MENU[k])
                   sum == AllNameXQty(t, name, Len(t)) + AllQtyName(t, name, Len(t))
               IN  sum > 0 => QtyOf(parsed[1].items, MENU[k].key) = sum

\* C10 witness: "2 tacos x2" was parsed and both patterns counted its tacos.
C10_Witness ==
    /\ text = Chars("2 tacos x2")
    /\ parsed = <<[none |-> FALSE, items |-> <<[key |-> "taco", qty |-> 4]>>]>>
    /\ AllNameXQty(text, Chars("tacos"), Len(text)) = 2
    /\ AllQtyName(text, Chars("tacos"), Len(text)) = 2

\* The keys of the catalog.
MenuKeys == {MENU[k].key : k \in 1..Len(MENU)}

\* The quantity the two patterns give a menu item in the normalized text t.
ExplicitQty(t, item) ==
    AllNameXQty(t, LoweredName(item), Len(t)) + AllQtyName(t, LoweredName(item), Len(t))

\* C11: parse_order puts every text in exactly one class. NotAnOrder (None)
\* when the normalized text is one of hi, hello, hola, menu, help, confirm,
\* change; Empty when no catalog item received a quantity; otherwise
\* Recognized, a mapping that holds only catalog keys, each once, with
\* strictly positive quantities: "0 tacos" never produces a zero entry.
C11_ParseClassifies ==
    parsed # <<>> =>
        LET t == normalize(text)
            items == parsed[1].items
        IN  /\ parsed[1].none <=>
                   t \in {Chars("hi"), Chars("hello"), Chars("hola"), Chars("menu"),
                          Chars("help"), Chars("confirm"), Chars("change")}
            /\ parsed[1].none => items = <<>>
            /\ ~parsed[1].none =>
                   /\ items = <<>> <=>
                          \A k \in 1..Len(MENU) :
                              /\ ExplicitQty(t, MENU[k]) = 0
                              /\ ~MentionsName(t, LoweredName(MENU[k]))
                   /\ \A i \in 1..Len(items) :
                          /\ items[i].key \in MenuKeys
                          /\ items[i].qty > 0
                   /\ \A i, j \in 1..Len(items) :
                          items[i].key = items[j].key => i = j

\* C11 witness: "0 tacos" was parsed; the integer-name pattern matched with
\* the quantity 0 and the order holds no zero entry.
C11_Witness ==
    /\ text = Chars("0 tacos")
    /\ MatchQtyName(text, Chars("tacos"), 1) = [found |-> TRUE, qty |-> 0, end |-> 8]
    /\ parsed = <<[none |-> FALSE, items |-> <<[key |-> "taco", qty |-> 1]>>]>>

\* The place of a key in the catalog declaration: taco, burrito, quesadilla, soda.
MenuIndex(key) == CHOOSE k \in 1..Len(MENU) : MENU[k].key = key

\* The entries i..j-1 of items stand in catalog declaration order.
InMenuOrder(items, i, j) ==
    \A a, b \in i..(j - 1) :
        a < b => MenuIndex(items[a].key) < MenuIndex(items[b].key)

\* The lines of the order summary name the entries of the order, one line per
\* entry and in the order of the entries.
LinesFollow(lines, items) ==
    /\ Len(lines) = Len(items)
    /\ \A i \in 1..Len(items) :
           /\ lines[i].name = MenuItem(items[i].key).name
           /\ lines[i].qty = items[i].qty

\* C12: the entries of every Recognized order, and the lines format_order
\* makes of it, stand in catalog declaration order (taco, burrito,
\* quesadilla, soda), whatever the order of mention and whichever items had
\* an explicit quantity or the implicit quantity 1.
C12_CatalogOrder ==
    (parsed # <<>> /\ ~parsed[1].none) =>
        /\ InMenuOrder(parsed[1].items, 1, Len(parsed[1].items) + 1)
        /\ priced # <<>> => LinesFollow(priced[1].lines, parsed[1].items)

\* C12 as the code has it: the items the two patterns gave a quantity come
\* first, in catalog order among themselves; the items that got the
\* implicit quantity 1 come after all of them, in catalog order among
\* themselves; the lines of format_order follow the entries one by one.
C12_CountedThenAssumed ==
    (parsed # <<>> /\ ~parsed[1].none) =>
        LET t == normalize(text)
            items == parsed[1].items
        IN  /\ \E n \in 0..Len(items) :
                   /\ \A i \in 1..n :
                          ExplicitQty(t, MenuItem(items[i].key)) > 0
                   /\ \A i \in (n + 1)..Len(items) :
                          /\ ExplicitQty(t, MenuItem(items[i].key)) = 0
                          /\ items[i].qty = 1
                   /\ InMenuOrder(items, 1, n + 1)
                   /\ InMenuOrder(items, n + 1, Len(items) + 1)
            /\ priced # <<>> => LinesFollow(priced[1].lines, items)

\* C12 witness: "soda x2 and tacos" was parsed and priced; the soda, counted
\* by a pattern, stands before the tacos, which got the implicit 1.
C12_Witness ==
    /\ text = Chars("soda x2 and tacos")
    /\ parsed = <<[none |-> FALSE, items |-> <<[key |-> "soda", qty |-> 2],
                                               [key |-> "taco", qty |-> 1]>>]>>
    /\ priced # <<>>
    /\ priced[1].lines[1].name = "Soda"
    /\ priced[1].lines[2].name = "Tacos"

---------------------------------------------------------------------------
(* Properties of the stored sessions and of the routing, checked under Spec *)

\* The value of an order by the catalog: over MENU[1..k], the quantity the
\* order holds for the item times the unit price of the item, added up.
RECURSIVE OrderValue(_, _)
OrderValue(items, k) ==
    IF k = 0 THEN 0
    ELSE OrderValue(items, k - 1) + QtyOf(items, MENU[k].key) * MENU[k].price

\* C13: the total of every stored session is the sum over the entries of its
\* order of quantity times catalog unit price, and the total of an
\* OrderAccepted reply is the stored total; no later message of any customer
\* makes a stored order and its total disagree.
C13_TotalMatchesOrder ==
    /\ \A c \in DOMAIN SESSIONS :
           SESSIONS[c]["total"] = OrderValue(SESSIONS[c]["items"], Len(MENU))
    /\ resp.kind = "OrderAccepted" =>
           /\ from_ \in DOMAIN SESSIONS
           /\ resp.total = SESSIONS[from_]["total"]
           /\ LinesFollow(resp.lines, SESSIONS[from_]["items"])
           /\ \A i \in 1..Len(resp.lines) :
                  resp.lines[i].line_total =
                      resp.lines[i].qty * MenuItem(SESSIONS[from_]["items"][i].key).price

\* C13 witness: the order of two entries, 2 tacos at 50 and 1 soda at 25,
\* still has the total 125 after a later message saved the address, while
\* the other customer holds an order of its own.
C13_Witness ==
    /\ resp.kind = "AddressSaved"
    /\ from_ \in DOMAIN SESSIONS
    /\ SESSIONS[from_] = HappyAddressed
    /\ prev[from_] = HappyOrder
    /\ \E c \in DOMAIN SESSIONS \ {from_} : SESSIONS[c]["total"] = 200

\* C15: every session in the store holds a non-empty order whose quantities
\* are all positive. A customer has no session, or an order without an
\* address field, or an order with an address field; a session with an
\* empty order is never reached.
C15_SessionsHoldOrders ==
    \A c \in DOMAIN SESSIONS :
        /\ c \in Customers
        /\ DOMAIN SESSIONS[c] \in {{"items", "total"}, {"items", "total", "address"}}
        /\ SESSIONS[c]["items"] # <<>>
        /\ \A i \in 1..Len(SESSIONS[c]["items"]) :
               /\ SESSIONS[c]["items"][i].key \in MenuKeys
               /\ SESSIONS[c]["items"][i].qty > 0

\* C15 witness: a body in which parse_order recognized nothing came from a
\* customer without a session and left no session, while the other customer
\* holds an order with an address.
C15_Witness ==
    /\ resp.kind = "NotRecognized"
    /\ Body = Chars("asdfasdf")
    /\ ParsedBodies[Body] = [none |-> FALSE, items |-> <<>>]
    /\ NoSession(SESSIONS, from_)
    /\ \E c \in Customers \ {from_} :
           /\ OrderAndAddress(SESSIONS, c)
           /\ SESSIONS[c]["address"] # <<>>

\* C17: a message whose lowered, trimmed body starts with "address:" is never
\* parsed as an order, even when the text after the colon names catalog
\* items. With a session that holds an order it changes the address field
\* of that session and nothing else, order and total included; without one
\* it creates no session.
C17_AddressOnlySetsAddress ==
    (resp # NoReply /\ StartsWith(Strip(Lower(Body)), Chars("address:"))) =>
        /\ resp.kind \in {"AddressSaved", "PlaceOrderFirst"}
        /\ IF HasItems(prev, from_)
           THEN /\ DOMAIN SESSIONS = DOMAIN prev
                /\ \A c \in DOMAIN prev \ {from_} : SESSIONS[c] = prev[c]
                /\ DOMAIN SESSIONS[from_] = DOMAIN prev[from_] \cup {"address"}
                /\ SESSIONS[from_]["items"] = prev[from_]["items"]
                /\ SESSIONS[from_]["total"] = prev[from_]["total"]
           ELSE SESSIONS = prev

\* C17 witness: "Address: 2 Tacos", in which parse_order recognizes 2 tacos,
\* came from a customer whose order was 2 tacos and 1 soda; the order and
\* the total stayed and the address is "2 Tacos".
C17_Witness ==
    /\ Body = Chars("Address: 2 Tacos")
    /\ parse_order(Body) = [none |-> FALSE, items |-> <<[key |-> "taco", qty |-> 2]>>]
    /\ from_ \in DOMAIN prev
    /\ prev[from_] = HappyOrder
    /\ SESSIONS[from_] = [items |-> HappyOrder.items, total |-> 125,
                          address |-> Chars("2 Tacos")]

\* C18: the NotAnOrder branch of the handler is unreachable. Whenever the
\* handler calls parse_order, the result is the empty dict or a recognized
\* order, never None: a body whose normalized form is one of the seven
\* commands is answered by the start, confirm or change branch, and the
\* reply "Reply MENU to start ordering." is never sent.
C18_NotAnOrderUnreachable ==
    resp # NoReply =>
        /\ resp.kind # "ReplyMenuToStart"
        /\ resp.kind \in {"NotRecognized", "OrderAccepted"} =>
               ~ParsedBodies[Strip(Body)].none
        /\ ParsedBodies[Strip(Body)].none =>
               resp.kind \in {"Menu", "NoOrderFound", "Confirmed", "OrderCleared"}

\* C18 witness: "menu!" reached parse_order, a command but for its
\* punctuation: its normalized form "menu " is no command, and the handler
\* answered that it recognized no items.
C18_Witness ==
    /\ Body = Chars("menu!")
    /\ normalize(Body) = Chars("menu ")
    /\ ParsedBodies[Body] = [none |-> FALSE, items |-> <<>>]
    /\ resp.kind = "NotRecognized"

---------------------------------------------------------------------------
(* Requests of one customer served by two threads. The handler takes no    *)
(* lock: a request is a sequence of steps, one for each statement that     *)
(* reads or writes SESSIONS or a session dict, and the steps of the two    *)
(* requests interleave freely. s = SESSIONS.get(from_) is a reference to   *)
(* the dict stored at that moment, so session dicts have an identity: ids  *)
(* names the dict stored for a sender, and a dict that was replaced or     *)
(* deleted stays in orphans for as long as a request still refers to it.   *)
(* A thread serves one request, then waits until the other thread is       *)
(* between requests; Settle then starts the next round.                    *)

\* The customer whose requests interleave, and the bodies of the requests.
RaceCustomers == {"whatsapp:+1"}

RaceMessages ==
    {Chars("2 tacos and 1 soda"), Chars("2 tacos x2"), Chars(" MENU"),
     Chars("confirm"), Chars("change"), Chars("address: 123 Main St"),
     Chars("done"), Chars("asdfasdf")}

\* SESSIONS.get(sender), as a reference
RefOf(sender) == IF sender \in DOMAIN ids THEN ids[sender] ELSE NoneRef

\* The session dict a reference refers to.
Deref(r) ==
    IF \E c \in DOMAIN ids : ids[c] = r
    THEN SESSIONS[CHOOSE c \in DOMAIN ids : ids[c] = r]
    ELSE orphans[r]

\* The references the locals of the requests hold.
Held(calls) == {calls[t].s : t \in Threads} \ {NoneRef}

\* The identity of a newly made dict: one that no dict in use has.
FreshRef ==
    CHOOSE r \in 1..(Cardinality(RaceCustomers) + Cardinality(Threads)) :
        r \notin {ids[c] : c \in DOMAIN ids} \cup Held(running)

\* The dicts outside SESSIONS that live on: those a local refers to.
Kept(objs, calls) == [r \in DOMAIN objs \cap Held(calls) |-> objs[r]]

\* The sessions dict as the request of thread t sees it through s.
Seen(t) ==
    IF running[t].s = NoneRef THEN <<>>
    ELSE running[t].sender :> Deref(running[t].s)

\* The request of thread t returns reply; its locals are gone.
Returned(t, reply, stale) ==
    [running EXCEPT ![t] = [@ EXCEPT !.pc = "returned", !.s = NoneRef,
                                     !.stale = stale, !.reply = reply]]

\* The request of thread t moves on to the statement pc.
Goto(t, pc) == [running EXCEPT ![t].pc = pc]

\* The value of running after a step of thread t that wrote no dict.
Local(t, calls) ==
    /\ running' = calls
    /\ orphans' = Kept(orphans, calls)
    /\ UNCHANGED <<SESSIONS, ids, base, lastVars, textVars>>

\* Lines 98-108 and 158-166: a request is received, and answered at once
\* when its branch touches no session.
Receive(t) ==
    /\ running[t].pc = "idle"
    /\ \E sender \in RaceCustomers, form_body \in RaceMessages :
           LET body_raw == MessageForms[form_body].body_raw
               body == MessageForms[form_body].body
               call == [IdleCall EXCEPT !.sender = sender, !.body = form_body]
               at(pc) == [running EXCEPT ![t] = [call EXCEPT !.pc = pc]]
               answered(reply) ==
                   [running EXCEPT ![t] = [call EXCEPT !.pc = "returned",
                                                       !.reply = reply]]
           IN  Local(t,
                   IF body \in StartCommands
                   THEN answered(StartHelp(SESSIONS, sender).resp)
                   ELSE IF body = Chars("confirm") THEN at("confirm_get")
                   ELSE IF body = Chars("change") THEN at("change_test")
                   ELSE IF StartsWith(body, Chars("address:")) THEN at("address_get")
                   ELSE IF body = Chars("done") THEN at("done_get")
                   ELSE IF \/ ParsedBodies[body_raw].none
                           \/ ParsedBodies[body_raw].items = <<>>
                        THEN answered(TryOrder(SESSIONS, sender, body_raw).resp)
                        ELSE at("order_store"))

\* Lines 112, 133, 150: s = SESSIONS.get(from_)
GetSession(t) ==
    /\ running[t].pc \in {"confirm_get", "address_get", "done_get"}
    /\ Local(t, [running EXCEPT
                     ![t].s = RefOf(running[t].sender),
                     ![t].seen = RefOf(running[t].sender),
                     ![t].pc = CASE running[t].pc = "confirm_get" -> "confirm_check"
                                 [] running[t].pc = "address_get" -> "address_check"
                                 [] running[t].pc = "done_get" -> "done_check"])

\* Lines 113-122: the test of confirm on s, and its reply
ConfirmCheck(t) ==
    /\ running[t].pc = "confirm_check"
    /\ Local(t, Returned(t, ConfirmOrder(Seen(t), running[t].sender).resp, FALSE))

\* Lines 151-156: the test of done on s, and its reply
DoneCheck(t) ==
    /\ running[t].pc = "done_check"
    /\ Local(t, Returned(t, DemoDone(Seen(t), running[t].sender).resp, FALSE))

\* Lines 134-136: the test of the address branch on s
AddressCheck(t) ==
    /\ running[t].pc = "address_check"
    /\ Local(t, IF HasItems(Seen(t), running[t].sender)
                THEN Goto(t, "address_set")
                ELSE Returned(t, Reply("PlaceOrderFirst"), FALSE))

\* A variant of AddressSet that puts the session it read back into SESSIONS
\* with the address set, as a store of whole records would have it.
AddressSetBack(t) ==
    /\ running[t].pc = "address_set"
    /\ LET sender == running[t].sender
           r == CaptureAddress(Seen(t), sender, MessageForms[running[t].body].body_raw)
           calls == Returned(t, r.resp, RefOf(sender) # running[t].s)
       IN  /\ running' = calls
           /\ SESSIONS' = DictSet(SESSIONS, sender, r.sessions[sender])
           /\ ids' = DictSet(ids, sender, running[t].s)
           /\ orphans' = IF sender \in DOMAIN ids /\ ids[sender] # running[t].s
                         THEN Kept(DictSet(orphans, ids[sender], SESSIONS[sender]), calls)
                         ELSE Kept(orphans, calls)
    /\ UNCHANGED <<base, lastVars, textVars>>

\* Lines 138-146: s["address"] = address, written into the dict s refers to,
\* be it still the one in SESSIONS or not.
AddressSet(t) ==
    /\ running[t].pc = "address_set"
    /\ LET sender == running[t].sender
           r == CaptureAddress(Seen(t), sender, MessageForms[running[t].body].body_raw)
           stored == \E c \in DOMAIN ids : ids[c] = running[t].s
           calls == Returned(t, r.resp, RefOf(sender) # running[t].s)
       IN  /\ running' = calls
           /\ SESSIONS' = IF stored
                          THEN [SESSIONS EXCEPT
                                    ![CHOOSE c \in DOMAIN ids : ids[c] = running[t].s] =
                                        r.sessions[sender]]
                          ELSE SESSIONS
           /\ orphans' = IF stored
                         THEN Kept(orphans, calls)
                         ELSE Kept([orphans EXCEPT ![running[t].s] = r.sessions[sender]],
                                   calls)
    /\ UNCHANGED <<ids, base, lastVars, textVars>>

\* Line 126: if from_ in SESSIONS
ChangeTest(t) ==
    /\ running[t].pc = "change_test"
    /\ Local(t, IF running[t].sender \in DOMAIN SESSIONS
                THEN [running EXCEPT ![t].pc = "change_del",
                                     ![t].seen = RefOf(running[t].sender)]
                ELSE Returned(t, ChangeOrder(SESSIONS, running[t].sender).resp, FALSE))

\* Lines 127-129: del SESSIONS[from_], which raises KeyError when the key is
\* no longer there; the request then ends without a reply.
ChangeDel(t) ==
    /\ running[t].pc = "change_del"
    /\ LET sender == running[t].sender
       IN  IF sender \in DOMAIN SESSIONS
           THEN LET calls == Returned(t, ChangeOrder(SESSIONS, sender).resp,
                                      ids[sender] # running[t].seen)
                IN  /\ running' = calls
                    /\ SESSIONS' = DictDel(SESSIONS, sender)
                    /\ ids' = DictDel(ids, sender)
                    /\ orphans' = Kept(DictSet(orphans, ids[sender], SESSIONS[sender]),
                                       calls)
           ELSE /\ running' = [running EXCEPT ![t] =
                                   [@ EXCEPT !.pc = "raised", !.reply = Reply("KeyError")]]
                /\ UNCHANGED <<SESSIONS, ids, orphans>>
    /\ UNCHANGED <<base, lastVars, textVars>>

\* Lines 168-179: SESSIONS[from_] = {"items": items_dict, "total": total}, a
\* new dict; the one it replaces lives on while a local refers to it.
OrderStore(t) ==
    /\ running[t].pc = "order_store"
    /\ LET sender == running[t].sender
           body_raw == MessageForms[running[t].body].body_raw
           r == StoreOrder(SESSIONS, sender, ParsedBodies[body_raw].items)
           calls == Returned(t, r.resp, FALSE)
       IN  /\ running' = calls
           /\ SESSIONS' = r.sessions
           /\ ids' = DictSet(ids, sender, FreshRef)
           /\ orphans' = IF sender \in DOMAIN SESSIONS
                         THEN Kept(DictSet(orphans, ids[sender], SESSIONS[sender]), calls)
                         ELSE Kept(orphans, calls)
    /\ UNCHANGED <<base, lastVars, textVars>>

\* Both threads are between requests: the next round starts from the
\* sessions the last one left.
Settle ==
    /\ \A t \in Threads : running[t].pc \in {"idle", "returned", "raised"}
    /\ \E t \in Threads : running[t].pc # "idle"
    /\ running' = [t \in Threads |-> IdleCall]
    /\ base' = SESSIONS
    /\ UNCHANGED <<SESSIONS, ids, orphans, lastVars, textVars>>

NextRace ==
    \/ \E t \in Threads :
           \/ Receive(t)
           \/ GetSession(t)
           \/ ConfirmCheck(t)
           \/ DoneCheck(t)
           \/ AddressCheck(t)
           \/ AddressSet(t)
           \/ ChangeTest(t)
           \/ ChangeDel(t)
           \/ OrderStore(t)
    \/ Settle

SpecRace == Init /\ [][NextRace]_vars

---------------------------------------------------------------------------
(* Properties of interleaved requests, checked under SpecRace *)

\* Both requests of the round have returned a reply.
BothReturned == \A t \in Threads : running[t].pc = "returned"

\* What the round left: the sessions dict and the reply of each request.
Outcome ==
    [sessions |-> SESSIONS, replies |-> [t \in Threads |-> running[t].reply]]

\* What the two requests leave when the request of thread first is handled
\* from its first line to its return before the other one is received.
Serial(first, second) ==
    LET r1 == Handle(base, running[first].sender, running[first].body)
        r2 == Handle(r1.sessions, running[second].sender, running[second].body)
    IN  [sessions |-> r2.sessions,
         replies |-> [t \in Threads |-> IF t = first THEN r1.resp ELSE r2.resp]]

SerialOutcomes ==
    {Serial(pair[1], pair[2]) : pair \in {p \in Threads \X Threads : p[1] # p[2]}}

\* A request wrote after the other request had changed what it had read: it
\* set the address in a dict that SESSIONS no longer holds, or deleted a
\* dict stored after its membership test.
WroteStale == \E t \in Threads : running[t].stale

C16_NoRequestRaises ==
    \A t \in Threads : running[t].pc # "raised"

====
